---- MODULE Spec2Model ----
(***************************************************************************)
(* Model of go_db's evidence redundancy analyzer                           *)
(* (src/src/go_db/queries/evidence.py): the gaf_association table, the     *)
(* isa_partof_closure relation and the queries EvidenceRedundancyAnalyzer  *)
(* runs against them.                                                      *)
(*                                                                         *)
(* A table is a bag of rows (SQL tables hold duplicates and have no        *)
(* order).  A query result is the bag of the rows it selects.  SQL         *)
(* comparisons are three-valued: a comparison with NULL is unknown, and a  *)
(* WHERE clause keeps a row only when its condition is true.  Every WHERE  *)
(* clause of the analyzer is a conjunction/disjunction of comparisons (no  *)
(* NOT over a comparison), so "unknown" is modelled as "not true".         *)
(***************************************************************************)
EXTENDS Integers, Sequences, FiniteSets, Bags, TLC

VARIABLES
    store,      \* gaf_association: bag of annotation rows
    closure,    \* isa_partof_closure: set of <<subject, object>> pairs
    last,       \* the analyzer call made last, with what it returned
    loader      \* a run of the loader: its configuration, the file at the
                \* database path, and how far load_all has come

vars == <<store, closure, last, loader>>

----------------------------------------------------------------------------
(* Bounds and value domains *)

MaxRows == 2

Genes == {"G1", "G2"}
Classes == {"C1", "C2"}
Refs == {"R1", "R2"}
EvidenceTypes == {"IEA", "EXP"}

\* SQL NULL / pandas NaN in a column; Python None as an argument
NULL == "NULL"
None == "None"

\* Columns of gaf_association that the model carries (Annotation's fields
\* the analyzer's SQL reads).  supporting_references is Optional.
Columns == {"db_object_id", "ontology_class_ref", "supporting_references", "evidence_type"}

Rows ==
    [db_object_id : Genes,
     ontology_class_ref : Classes,
     supporting_references : Refs \cup {NULL},
     evidence_type : EvidenceTypes]

\* Optional[List[str]]: None, or a list
PyNone == [is_none |-> TRUE, items |-> << >>]
PyList(items) == [is_none |-> FALSE, items |-> items]

\* Arguments the calls are made with.  method names the column compared;
\* the calls are made with its default, supporting_references.
MethodArgs == {"supporting_references"}
EvidenceArgs == {None, "", "IEA", "EXP"}
EvidenceStrArgs == {"", "IEA", "EXP"}
\* "R3" is a reference no row of the table carries
ComparatorArgs ==
    {PyNone, PyList(<< >>), PyList(<<"R1">>), PyList(<<"R1", "R2">>), PyList(<<"R3">>)}
SummaryComparatorArgs == {PyNone, PyList(<<"R1">>)}
GroupByArgs == {PyNone, PyList(<<"evidence_type">>), PyList(<<"no_such_field">>)}

----------------------------------------------------------------------------
(* Python and SQL primitives *)

\* bool(x) of an Optional[str]
TruthyStr(s) == s # None /\ s # ""

\* bool(x) of an Optional[List[str]]
TruthyList(l) == ~l.is_none /\ Len(l.items) > 0

\* SQL x = y and x != y, true only when neither side is NULL
SqlEq(x, y) == x # NULL /\ y # NULL /\ x = y
SqlNe(x, y) == x # NULL /\ y # NULL /\ x # y

\* SELECT DISTINCT a.* ... WHERE: each selected row once
SelectRows_Distinct(B, S) == [r \in (S \cap DOMAIN B) |-> 1]

\* SELECT a.* ... WHERE: the rows of table B that lie in S, each with its
\* multiplicity in B
SelectRows(B, S) == [r \in (S \cap DOMAIN B) |-> B[r]]

----------------------------------------------------------------------------
(* EvidenceRedundancyAnalyzer: the comparator clause and the two           *)
(* NOT EXISTS queries                                                      *)

\* _build_comparator_clause: (a2.<method> = 'c1' OR a2.<method> = 'c2' ...)
build_comparator_clause(method, comparator_methods, a2) ==
    \E i \in 1..Len(comparator_methods.items) :
        SqlEq(a2[method], comparator_methods.items[i])

\* UniqueContributions(annotations=df.to_dict("records"), count=len(df), ...)
UniqueContributions(annotations, method, evidence_type, comparator_methods) ==
    [annotations |-> annotations,
     count |-> BagCardinality(annotations),
     method |-> method,
     evidence_type |-> evidence_type,
     comparator_methods |-> comparator_methods]

\* get_unique_contributions with the closure join reversed
\* (ipc.object = a2.ontology_class_ref AND ipc.subject = a.ontology_class_ref)
get_unique_contributions_ReversedJoin(method, evidence_type, comparator_methods) ==
    UniqueContributions(
        SelectRows(store,
            {a \in DOMAIN store :
                /\ ~ \E a2 \in DOMAIN store : \E ipc \in closure :
                      /\ a2.ontology_class_ref = ipc[2]
                      /\ IF TruthyList(comparator_methods)
                         THEN build_comparator_clause(method, comparator_methods, a2)
                         ELSE SqlNe(a2[method], a[method])
                      /\ ipc[1] = a.ontology_class_ref
                      /\ a2.db_object_id = a.db_object_id
                /\ (TruthyStr(evidence_type) => SqlEq(a.evidence_type, evidence_type))}),
        method, evidence_type, comparator_methods)

\* get_unique_contributions without AND a2.db_object_id = a.db_object_id
get_unique_contributions_AnyGene(method, evidence_type, comparator_methods) ==
    UniqueContributions(
        SelectRows(store,
            {a \in DOMAIN store :
                /\ ~ \E a2 \in DOMAIN store : \E ipc \in closure :
                      /\ a2.ontology_class_ref = ipc[1]
                      /\ IF TruthyList(comparator_methods)
                         THEN build_comparator_clause(method, comparator_methods, a2)
                         ELSE SqlNe(a2[method], a[method])
                      /\ ipc[2] = a.ontology_class_ref
                /\ (TruthyStr(evidence_type) => SqlEq(a.evidence_type, evidence_type))}),
        method, evidence_type, comparator_methods)

\* get_unique_contributions matching through proper closure pairs only
\* (AND ipc.subject != ipc.object)
get_unique_contributions_ProperPairs(method, evidence_type, comparator_methods) ==
    UniqueContributions(
        SelectRows(store,
            {a \in DOMAIN store :
                /\ ~ \E a2 \in DOMAIN store : \E ipc \in closure :
                      /\ a2.ontology_class_ref = ipc[1]
                      /\ IF TruthyList(comparator_methods)
                         THEN build_comparator_clause(method, comparator_methods, a2)
                         ELSE SqlNe(a2[method], a[method])
                      /\ ipc[2] = a.ontology_class_ref
                      /\ ipc[1] # ipc[2]
                      /\ a2.db_object_id = a.db_object_id
                /\ (TruthyStr(evidence_type) => SqlEq(a.evidence_type, evidence_type))}),
        method, evidence_type, comparator_methods)

\* if comparator_methods: comparator_clause = self._build_comparator_clause(...)
\* else:                  comparator_clause = f"a2.{method} != a.{method}"
\* evidence_filter = f"AND a.evidence_type = '{evidence_type}'" if evidence_type else ""
\* SELECT a.* FROM gaf_association a
\* WHERE NOT EXISTS(
\*     SELECT 1 FROM gaf_association a2
\*       INNER JOIN isa_partof_closure ipc ON a2.ontology_class_ref = ipc.subject
\*     WHERE {comparator_clause}
\*       AND ipc.object = a.ontology_class_ref
\*       AND a2.db_object_id = a.db_object_id)
\* {evidence_filter}
get_unique_contributions(method, evidence_type, comparator_methods) ==
    UniqueContributions(
        SelectRows(store,
            {a \in DOMAIN store :
                /\ ~ \E a2 \in DOMAIN store : \E ipc \in closure :
                      /\ a2.ontology_class_ref = ipc[1]
                      /\ IF TruthyList(comparator_methods)
                         THEN build_comparator_clause(method, comparator_methods, a2)
                         ELSE SqlNe(a2[method], a[method])
                      /\ ipc[2] = a.ontology_class_ref
                      /\ a2.db_object_id = a.db_object_id
                /\ (TruthyStr(evidence_type) => SqlEq(a.evidence_type, evidence_type))}),
        method, evidence_type, comparator_methods)

\* check_redundancy comparing against every other method whatever
\* comparator_methods is
check_redundancy_IgnoresComparators(method, evidence_type, comparator_methods) ==
    UniqueContributions(
        SelectRows(store,
            {a \in DOMAIN store :
                /\ SqlEq(a.evidence_type, evidence_type)
                /\ ~ \E a2 \in DOMAIN store : \E ipc \in closure :
                      /\ a2.ontology_class_ref = ipc[1]
                      /\ SqlNe(a2[method], a[method])
                      /\ ipc[2] = a.ontology_class_ref
                      /\ a2.db_object_id = a.db_object_id}),
        method, evidence_type, comparator_methods)

\* check_redundancy: the same query with a.evidence_type = '{evidence_type}'
\* always in the WHERE clause
check_redundancy(method, evidence_type, comparator_methods) ==
    UniqueContributions(
        SelectRows(store,
            {a \in DOMAIN store :
                /\ SqlEq(a.evidence_type, evidence_type)
                /\ ~ \E a2 \in DOMAIN store : \E ipc \in closure :
                      /\ a2.ontology_class_ref = ipc[1]
                      /\ IF TruthyList(comparator_methods)
                         THEN build_comparator_clause(method, comparator_methods, a2)
                         ELSE SqlNe(a2[method], a[method])
                      /\ ipc[2] = a.ontology_class_ref
                      /\ a2.db_object_id = a.db_object_id}),
        method, evidence_type, comparator_methods)

\* find_redundant_references with the closure join reversed
find_redundant_references_ReversedJoin(reference, evidence_type) ==
    UniqueContributions(
        SelectRows(store,
            {a \in DOMAIN store :
                /\ SqlEq(a.supporting_references, reference)
                /\ SqlEq(a.evidence_type, evidence_type)
                /\ \E a2 \in DOMAIN store : \E ipc \in closure :
                      /\ a2.ontology_class_ref = ipc[2]
                      /\ SqlNe(a2.supporting_references, a.supporting_references)
                      /\ ipc[1] = a.ontology_class_ref
                      /\ a2.db_object_id = a.db_object_id}),
        "supporting_references", evidence_type, PyNone)

\* find_redundant_references without AND a.evidence_type = '{evidence_type}'
find_redundant_references_AnyEvidence(reference, evidence_type) ==
    UniqueContributions(
        SelectRows(store,
            {a \in DOMAIN store :
                /\ SqlEq(a.supporting_references, reference)
                /\ \E a2 \in DOMAIN store : \E ipc \in closure :
                      /\ a2.ontology_class_ref = ipc[1]
                      /\ SqlNe(a2.supporting_references, a.supporting_references)
                      /\ ipc[2] = a.ontology_class_ref
                      /\ a2.db_object_id = a.db_object_id}),
        "supporting_references", evidence_type, PyNone)

\* find_redundant_references: EXISTS instead of NOT EXISTS, the comparator
\* fixed to a2.supporting_references != a.supporting_references
find_redundant_references(reference, evidence_type) ==
    UniqueContributions(
        SelectRows(store,
            {a \in DOMAIN store :
                /\ SqlEq(a.supporting_references, reference)
                /\ SqlEq(a.evidence_type, evidence_type)
                /\ \E a2 \in DOMAIN store : \E ipc \in closure :
                      /\ a2.ontology_class_ref = ipc[1]
                      /\ SqlNe(a2.supporting_references, a.supporting_references)
                      /\ ipc[2] = a.ontology_class_ref
                      /\ a2.db_object_id = a.db_object_id}),
        "supporting_references", evidence_type, PyNone)

----------------------------------------------------------------------------
(* get_unique_contributions_summary: pandas groupby over the unique rows   *)

\* if group_by is None: group_by = ["evidence_type", method]
group_by_fields(method, group_by) ==
    IF group_by.is_none THEN <<"evidence_type", method>> ELSE group_by.items

\* The group key of a row: its values in the group_by columns
GroupKey(fields, a) == [i \in 1..Len(fields) |-> a[fields[i]]]

\* df.groupby(group_by).size().reset_index(name="contribution_count"):
\* one group per distinct key; groupby's default dropna=True leaves out every
\* row that holds a null in a key column
groupby_size(annotations, fields) ==
    LET kept == {a \in DOMAIN annotations :
                    \A i \in 1..Len(fields) : a[fields[i]] # NULL}
        keys == {GroupKey(fields, a) : a \in kept}
    IN  {[key |-> k,
          contribution_count |->
              BagCardinality(SelectRows(annotations,
                  {a \in kept : GroupKey(fields, a) = k}))] : k \in keys}

\* grouped.sort_values("contribution_count", ascending=False): the default
\* sort kind is not stable, so groups with equal counts come in any order
sort_values(grouped) ==
    {s \in [1..Cardinality(grouped) -> grouped] :
        /\ \A i, j \in DOMAIN s : i # j => s[i] # s[j]
        /\ \A i, j \in DOMAIN s : i < j =>
              s[i].contribution_count >= s[j].contribution_count}

ContributionSummaryResult(error, summaries, total_unique, fields) ==
    [error |-> error,
     summaries |-> summaries,
     total_unique |-> total_unique,
     group_by_fields |-> fields]

\* The outcomes get_unique_contributions_summary can have: a result, or the
\* KeyError df.groupby raises for a key that is no column of df
get_unique_contributions_summary(method, evidence_type, comparator_methods, group_by) ==
    LET fields == group_by_fields(method, group_by)
        unique_rel == get_unique_contributions(method, evidence_type, comparator_methods)
    IN  IF unique_rel.count = 0
        THEN \* if df.empty: return ContributionSummaryResult(summaries=[], total_unique=0, ...)
             {ContributionSummaryResult("none", << >>, 0, fields)}
        ELSE IF \E i \in 1..Len(fields) : fields[i] \notin Columns
        THEN {ContributionSummaryResult("KeyError", << >>, 0, fields)}
        ELSE {ContributionSummaryResult("none", s, unique_rel.count, fields) :
                 s \in sort_values(groupby_size(unique_rel.annotations, fields))}

----------------------------------------------------------------------------
(* EvidenceRedundancyAnalyzer.compare_reference_sets: three COUNT(DISTINCT) *)
(* queries over gaf_association alone                                       *)

\* Reference sets the comparison is called with; the empty list is the
\* failing call
RefSetArgs == {<< >>, <<"R1">>, <<"R2">>, <<"R1", "R2">>}
CompareEvidenceArgs == {None, "IEA"}

\* db_object_id || ':' || ontology_class_ref, the value COUNT(DISTINCT ...)
\* counts.  Identifiers of the model hold no ':', so distinct pairs have
\* distinct keys.
pair_key(a) == a.db_object_id \o ":" \o a.ontology_class_ref

\* "(" + " OR ".join([f"supporting_references = '{ref}'" for ref in reference_set]) + ")"
set_clause(a, reference_set) ==
    \E i \in 1..Len(reference_set) : SqlEq(a.supporting_references, reference_set[i])

\* query_unique_to_set2 without its NOT EXISTS clause
query_unique_to_set2_NoAntiJoin(reference_set1, reference_set2, evidence_type) ==
    Cardinality({pair_key(a) : a \in
        {a \in DOMAIN store :
            /\ (TruthyStr(evidence_type) => SqlEq(a.evidence_type, evidence_type))
            /\ set_clause(a, reference_set2)}})

\* query_overlap counting joined rows, COUNT(*), instead of distinct pairs
query_overlap_CountRows(reference_set1, reference_set2, evidence_type) ==
    BagCardinality(SelectRows(store,
        {a1 \in DOMAIN store :
            /\ (TruthyStr(evidence_type) => SqlEq(a1.evidence_type, evidence_type))
            /\ set_clause(a1, reference_set1)
            /\ \E a2 \in DOMAIN store :
                  /\ a1.db_object_id = a2.db_object_id
                  /\ a1.ontology_class_ref = a2.ontology_class_ref
                  /\ set_clause(a2, reference_set2)}))

\* query_unique_to_set1 with the NOT EXISTS subquery joined through
\* isa_partof_closure, as get_unique_contributions joins it
query_unique_to_set1_ViaClosure(reference_set1, reference_set2, evidence_type) ==
    Cardinality({pair_key(a) : a \in
        {a \in DOMAIN store :
            /\ (TruthyStr(evidence_type) => SqlEq(a.evidence_type, evidence_type))
            /\ set_clause(a, reference_set1)
            /\ ~ \E a2 \in DOMAIN store : \E ipc \in closure :
                  /\ a2.db_object_id = a.db_object_id
                  /\ a2.ontology_class_ref = ipc[1]
                  /\ ipc[2] = a.ontology_class_ref
                  /\ set_clause(a2, reference_set2)}})

\* SELECT COUNT(DISTINCT db_object_id || ':' || ontology_class_ref)
\* FROM gaf_association
\* {evidence_filter} {'AND' if evidence_filter else 'WHERE'} {set1_clause}
\* AND NOT EXISTS (
\*     SELECT 1 FROM gaf_association a2
\*     WHERE a2.db_object_id = gaf_association.db_object_id
\*     AND a2.ontology_class_ref = gaf_association.ontology_class_ref
\*     AND {set2_clause on a2})
\* The evidence filter is on the outer row only.
query_unique_to_set1(reference_set1, reference_set2, evidence_type) ==
    Cardinality({pair_key(a) : a \in
        {a \in DOMAIN store :
            /\ (TruthyStr(evidence_type) => SqlEq(a.evidence_type, evidence_type))
            /\ set_clause(a, reference_set1)
            /\ ~ \E a2 \in DOMAIN store :
                  /\ a2.db_object_id = a.db_object_id
                  /\ a2.ontology_class_ref = a.ontology_class_ref
                  /\ set_clause(a2, reference_set2)}})

\* The same query with the sets exchanged: {set2_clause} outside,
\* {set1_clause on a2} inside NOT EXISTS
query_unique_to_set2(reference_set1, reference_set2, evidence_type) ==
    Cardinality({pair_key(a) : a \in
        {a \in DOMAIN store :
            /\ (TruthyStr(evidence_type) => SqlEq(a.evidence_type, evidence_type))
            /\ set_clause(a, reference_set2)
            /\ ~ \E a2 \in DOMAIN store :
                  /\ a2.db_object_id = a.db_object_id
                  /\ a2.ontology_class_ref = a.ontology_class_ref
                  /\ set_clause(a2, reference_set1)}})

\* SELECT COUNT(DISTINCT a1.db_object_id || ':' || a1.ontology_class_ref)
\* FROM gaf_association a1
\* INNER JOIN gaf_association a2 ON a1.db_object_id = a2.db_object_id
\*     AND a1.ontology_class_ref = a2.ontology_class_ref
\* WHERE {a1.evidence_type = '...' AND, if evidence_type}
\*     {set1_clause on a1} AND {set2_clause on a2}
query_overlap(reference_set1, reference_set2, evidence_type) ==
    Cardinality({pair_key(a1) : a1 \in
        {a1 \in DOMAIN store :
            /\ (TruthyStr(evidence_type) => SqlEq(a1.evidence_type, evidence_type))
            /\ set_clause(a1, reference_set1)
            /\ \E a2 \in DOMAIN store :
                  /\ a1.db_object_id = a2.db_object_id
                  /\ a1.ontology_class_ref = a2.ontology_class_ref
                  /\ set_clause(a2, reference_set2)}})

\* ReferenceComparison(unique_to_set1=..., ..., evidence_type=evidence_type);
\* error names the exception the call raised instead, "none" if it returned
ReferenceComparison(error, unique_to_set1, unique_to_set2, overlap, reference_set1, reference_set2, evidence_type) ==
    [op |-> "compare_reference_sets",
     error |-> error,
     unique_to_set1 |-> unique_to_set1,
     unique_to_set2 |-> unique_to_set2,
     overlap |-> overlap,
     total_set1 |-> unique_to_set1 + overlap,
     total_set2 |-> unique_to_set2 + overlap,
     reference_set1 |-> reference_set1,
     reference_set2 |-> reference_set2,
     evidence_type |-> evidence_type]

\* compare_reference_sets.  An empty reference set makes its clause "()",
\* which the database rejects when the first query is run.
compare_reference_sets(reference_set1, reference_set2, evidence_type) ==
    IF Len(reference_set1) = 0 \/ Len(reference_set2) = 0
    THEN ReferenceComparison("ParserException", 0, 0, 0,
                             reference_set1, reference_set2, evidence_type)
    ELSE ReferenceComparison("none",
             query_unique_to_set1(reference_set1, reference_set2, evidence_type),
             query_unique_to_set2(reference_set1, reference_set2, evidence_type),
             query_overlap(reference_set1, reference_set2, evidence_type),
             reference_set1, reference_set2, evidence_type)

----------------------------------------------------------------------------
(* The loader (src/src/go_db/main.py): LoaderConfiguration.check and the   *)
(* list of SQLite databases bulk_load_go_db hands on                        *)

\* What is at Path(config.db) in the file system
FileKinds == {"absent", "file", "directory"}

\* go_db_path: Optional[Union[str, List[str]]]
GoDbNone == [kind |-> "None"]
GoDbStr(path) == [kind |-> "str", path |-> path]
GoDbList(items) == [kind |-> "list", items |-> items]

\* The values the load command gives go_db_path (one -g: the string; several:
\* the list; none: the default "db/go.db"), and those a caller of
\* LoaderConfiguration can give besides
GoDbPathArgs ==
    {GoDbNone, GoDbStr(""), GoDbStr("db/go.db"), GoDbStr("go1.db"),
     GoDbList(<<"go1.db", "go2.db">>), GoDbList(<<"go2.db", "go1.db">>)}

AdditionalDbPathsArgs == {PyNone, PyList(<< >>), PyList(<<"other.db">>)}

\* sources and gpi_sources: Optional[List[str]] = None.  missing.gaf names
\* a file that is not there.
SourcesArgs ==
    {PyNone, PyList(<< >>), PyList(<<"a.gaf">>), PyList(<<"missing.gaf">>)}

GpiSourcesArgs == {PyNone, PyList(<< >>), PyList(<<"a.gpi">>)}

Configurations ==
    [db : {":memory:", "go.ddb"},
     sources : SourcesArgs,
     gpi_sources : GpiSourcesArgs,
     append : BOOLEAN,
     force : BOOLEAN,
     go_db_path : GoDbPathArgs,
     additional_db_paths : AdditionalDbPathsArgs]

\* is_memory: self.db == ":memory:"
is_memory(config) == config.db = ":memory:"

\* check() testing force before append
check_ForceFirst(config, file) ==
    IF is_memory(config) THEN [error |-> "none", file |-> file]
    ELSE IF file # "absent"
    THEN IF config.force
         THEN IF file = "directory"
              THEN [error |-> "OSError", file |-> file]
              ELSE [error |-> "none", file |-> "absent"]
         ELSE IF config.append
         THEN [error |-> "NotImplementedError", file |-> file]
         ELSE [error |-> "ValueError", file |-> file]
    ELSE [error |-> "none", file |-> file]

\* LoaderConfiguration.check: the exception raised ("none" if it returns)
\* and what is at the database path afterwards.  path.unlink() of a
\* directory raises an OSError and removes nothing.
check(config, file) ==
    IF is_memory(config) THEN [error |-> "none", file |-> file]
    ELSE IF file # "absent"
    THEN IF config.append
         THEN [error |-> "NotImplementedError", file |-> file]
         ELSE IF config.force
         THEN IF file = "directory"
              THEN [error |-> "OSError", file |-> file]
              ELSE [error |-> "none", file |-> "absent"]
         ELSE [error |-> "ValueError", file |-> file]
    ELSE [error |-> "none", file |-> file]

\* bool(x) of an element of sqlite_dbs
TruthyPath(x) ==
    CASE x.kind = "None" -> FALSE
      [] x.kind = "str" -> x.path # ""
      [] x.kind = "list" -> Len(x.items) > 0

\* The elements of additional_db_paths, as elements of sqlite_dbs
Wrapped(paths) == [i \in 1..Len(paths) |-> GoDbStr(paths[i])]

\* sqlite_dbs = [config.go_db_path]
\* if config.additional_db_paths: sqlite_dbs.extend(config.additional_db_paths)
sqlite_dbs(config) ==
    <<config.go_db_path>>
    \o (IF TruthyList(config.additional_db_paths)
        THEN Wrapped(config.additional_db_paths.items)
        ELSE << >>)

\* The loop of bulk_load_sqlite_to_duckdb_multi from position idx (counted
\* from 1) on: attached lists the paths ATTACHed so far, loaded those whose
\* tables were copied, created tells whether CREATE TABLE has run.  An
\* element that is a list is formatted into the ATTACH statement as its
\* repr, "['a', 'b']", whose quotes end the SQL string: the statement is
\* rejected.  INSERT INTO a table never created fails, and so does the
\* final SELECT COUNT(*).
RECURSIVE attach_each(_, _, _, _, _)
attach_each(dbs, idx, attached, loaded, created) ==
    IF idx > Len(dbs)
    THEN [error |-> IF created THEN "none" ELSE "CatalogException",
          attached |-> attached, loaded |-> loaded]
    ELSE IF ~TruthyPath(dbs[idx])
    THEN attach_each(dbs, idx + 1, attached, loaded, created)
    ELSE IF dbs[idx].kind = "list"
    THEN [error |-> "ParserException", attached |-> attached, loaded |-> loaded]
    ELSE IF idx = 1
    THEN attach_each(dbs, idx + 1, Append(attached, dbs[idx].path),
                     Append(loaded, dbs[idx].path), TRUE)
    ELSE IF ~created
    THEN [error |-> "CatalogException",
          attached |-> Append(attached, dbs[idx].path), loaded |-> loaded]
    ELSE attach_each(dbs, idx + 1, Append(attached, dbs[idx].path),
                     Append(loaded, dbs[idx].path), created)

\* bulk_load_sqlite_to_duckdb_multi(config, sqlite_dbs, tables)
bulk_load_sqlite_to_duckdb_multi(dbs) ==
    IF Len(dbs) = 0
    THEN [error |-> "ValueError", attached |-> << >>, loaded |-> << >>]
    ELSE attach_each(dbs, 1, << >>, << >>, FALSE)

\* The record kept of a run of the loader
Loader(pc, config, file, error, dbs, attached, loaded) ==
    [pc |-> pc,
     config |-> config,
     file |-> file,
     error |-> error,
     sqlite_dbs |-> dbs,
     attached |-> attached,
     loaded |-> loaded]

NoConfiguration ==
    [db |-> ":memory:", sources |-> PyNone, gpi_sources |-> PyNone,
     append |-> FALSE, force |-> FALSE,
     go_db_path |-> GoDbNone, additional_db_paths |-> PyNone]

NoLoader == Loader("none", NoConfiguration, "absent", "none", << >>, << >>, << >>)

----------------------------------------------------------------------------
(* State machine: the tables are loaded, then the analyzer is queried      *)

\* The record kept of an analyzer call
Call(op, method, evidence_type, comparator_methods, group_by, reference, annotations, count, summaries, total_unique, error) ==
    [op |-> op,
     method |-> method,
     evidence_type |-> evidence_type,
     comparator_methods |-> comparator_methods,
     group_by |-> group_by,
     reference |-> reference,
     annotations |-> annotations,
     count |-> count,
     summaries |-> summaries,
     total_unique |-> total_unique,
     error |-> error]

NoCall == Call("none", None, None, PyNone, PyNone, None, EmptyBag, 0, << >>, 0, "none")

Init ==
    /\ store = EmptyBag
    /\ closure = {}
    /\ last = NoCall
    /\ loader = NoLoader

\* load_gaf_source: INSERT INTO gaf_association_flat ... (one row per step);
\* loading precedes the analyzer's queries
load_gaf_source ==
    /\ last.op = "none"
    /\ BagCardinality(store) < MaxRows
    /\ \E row \in Rows : store' = store (+) SetToBag({row})
    /\ UNCHANGED <<closure, last, loader>>

\* bulk_load_go_db: the ontology's entailed edges, read as isa_partof_closure
bulk_load_go_db ==
    /\ last.op = "none"
    /\ \E subject \in Classes, object \in Classes :
          /\ <<subject, object>> \notin closure
          /\ closure' = closure \cup {<<subject, object>>}
    /\ UNCHANGED <<store, last, loader>>

call_get_unique_contributions ==
    /\ last.op = "none"
    /\ \E method \in MethodArgs, evidence_type \in EvidenceArgs,
          comparator_methods \in ComparatorArgs :
          LET r == get_unique_contributions(method, evidence_type, comparator_methods)
          IN  last' = Call("get_unique_contributions", method, evidence_type,
                           comparator_methods, PyNone, None,
                           r.annotations, r.count, << >>, 0, "none")
    /\ UNCHANGED <<store, closure, loader>>

call_check_redundancy ==
    /\ last.op = "none"
    /\ \E method \in MethodArgs, evidence_type \in EvidenceStrArgs,
          comparator_methods \in ComparatorArgs :
          LET r == check_redundancy(method, evidence_type, comparator_methods)
          IN  last' = Call("check_redundancy", method, evidence_type,
                           comparator_methods, PyNone, None,
                           r.annotations, r.count, << >>, 0, "none")
    /\ UNCHANGED <<store, closure, loader>>

call_get_unique_contributions_summary ==
    /\ last.op = "none"
    /\ \E method \in MethodArgs, evidence_type \in EvidenceArgs,
          comparator_methods \in SummaryComparatorArgs, group_by \in GroupByArgs :
          \E r \in get_unique_contributions_summary(method, evidence_type,
                                                    comparator_methods, group_by) :
              last' = Call("get_unique_contributions_summary", method, evidence_type,
                           comparator_methods, group_by, None,
                           EmptyBag, 0, r.summaries, r.total_unique, r.error)
    /\ UNCHANGED <<store, closure, loader>>

\* call_find_redundant_references deleting the rows it found from the table
call_find_redundant_references_Deleting ==
    /\ last.op = "none"
    /\ \E reference \in Refs, evidence_type \in EvidenceStrArgs :
          LET r == find_redundant_references(reference, evidence_type)
          IN  /\ last' = Call("find_redundant_references", "supporting_references",
                              evidence_type, PyNone, PyNone, reference,
                              r.annotations, r.count, << >>, 0, "none")
              /\ store' = SelectRows(store, DOMAIN store \ DOMAIN r.annotations)
    /\ UNCHANGED <<closure, loader>>

call_find_redundant_references ==
    /\ last.op = "none"
    /\ \E reference \in Refs, evidence_type \in EvidenceStrArgs :
          LET r == find_redundant_references(reference, evidence_type)
          IN  last' = Call("find_redundant_references", "supporting_references",
                           evidence_type, PyNone, PyNone, reference,
                           r.annotations, r.count, << >>, 0, "none")
    /\ UNCHANGED <<store, closure, loader>>

call_compare_reference_sets ==
    /\ last.op = "none"
    /\ \E reference_set1 \in RefSetArgs, reference_set2 \in RefSetArgs,
          evidence_type \in CompareEvidenceArgs :
          last' = compare_reference_sets(reference_set1, reference_set2, evidence_type)
    /\ UNCHANGED <<store, closure, loader>>

\* The caller is done with the value object a call returned; calls are
\* synchronous and the analyzer keeps nothing of them
release_result ==
    /\ last.op # "none"
    /\ last' = NoCall
    /\ UNCHANGED <<store, closure, loader>>

Next ==
    \/ load_gaf_source
    \/ bulk_load_go_db
    \/ call_get_unique_contributions
    \/ call_check_redundancy
    \/ call_get_unique_contributions_summary
    \/ call_find_redundant_references
    \/ release_result

Spec == Init /\ [][Next]_vars

\* The comparison of reference sets, queried on its own
NextCompare ==
    \/ load_gaf_source
    \/ bulk_load_go_db
    \/ call_compare_reference_sets
    \/ release_result

SpecCompare == Init /\ [][NextCompare]_vars

----------------------------------------------------------------------------
(* A wider table for the comparison of two single references: six          *)
(* (db_object_id, ontology_class_ref) pairs, rows of R1 and R2 only         *)

MaxWideRows == 8

WideGenes == {"G1", "G2", "G3"}

WideRows ==
    [db_object_id : WideGenes,
     ontology_class_ref : Classes,
     supporting_references : Refs,
     evidence_type : {"IEA"}]

\* load_gaf_source, one row of the wider table per step
load_gaf_source_wide ==
    /\ last.op = "none"
    /\ BagCardinality(store) < MaxWideRows
    /\ \E row \in WideRows : store' = store (+) SetToBag({row})
    /\ UNCHANGED <<closure, last, loader>>

\* go-db evidence compare-references -s1 R1 -s2 R2, without -e:
\* analyzer.compare_reference_sets(list(set1), list(set2), evidence_type)
compare_references ==
    /\ last.op = "none"
    /\ last' = compare_reference_sets(<<"R1">>, <<"R2">>, None)
    /\ UNCHANGED <<store, closure, loader>>

NextWide ==
    \/ load_gaf_source_wide
    \/ compare_references
    \/ release_result

SpecWide == Init /\ [][NextWide]_vars

----------------------------------------------------------------------------
(* The analyzer as its callers use it: any operation, any number of times  *)

\* What the call recorded in c returns when it is made again now, with the
\* arguments c holds
Repeated(c) ==
    CASE c.op = "get_unique_contributions" ->
            LET r == get_unique_contributions(c.method, c.evidence_type, c.comparator_methods)
            IN  {Call(c.op, c.method, c.evidence_type, c.comparator_methods, PyNone, None,
                      r.annotations, r.count, << >>, 0, "none")}
      [] c.op = "check_redundancy" ->
            LET r == check_redundancy(c.method, c.evidence_type, c.comparator_methods)
            IN  {Call(c.op, c.method, c.evidence_type, c.comparator_methods, PyNone, None,
                      r.annotations, r.count, << >>, 0, "none")}
      [] c.op = "get_unique_contributions_summary" ->
            {Call(c.op, c.method, c.evidence_type, c.comparator_methods, c.group_by, None,
                  EmptyBag, 0, r.summaries, r.total_unique, r.error) :
                r \in get_unique_contributions_summary(c.method, c.evidence_type,
                                                       c.comparator_methods, c.group_by)}
      [] c.op = "find_redundant_references" ->
            LET r == find_redundant_references(c.reference, c.evidence_type)
            IN  {Call(c.op, c.method, c.evidence_type, PyNone, PyNone, c.reference,
                      r.annotations, r.count, << >>, 0, "none")}
      [] c.op = "compare_reference_sets" ->
            {compare_reference_sets(c.reference_set1, c.reference_set2, c.evidence_type)}

\* The caller makes the call again with the same arguments, on the same
\* analyzer
repeat_call ==
    /\ last.op # "none"
    /\ last' \in Repeated(last)
    /\ UNCHANGED <<store, closure, loader>>

\* Closures the ontology load leaves behind: none, the reflexive one, and
\* the reflexive one with C1 under C2
LoadedClosures ==
    {{},
     {<<c, c>> : c \in Classes},
     {<<c, c>> : c \in Classes} \cup {<<"C1", "C2">>}}

\* load_all loads the ontology (bulk_load_go_db) before the annotations
\* (load_gaf): the state once the ontology is in
InitAnalyzer ==
    /\ store = EmptyBag
    /\ closure \in LoadedClosures
    /\ last = NoCall
    /\ loader = NoLoader

\* Every operation of the analyzer, and calls made twice
NextAnalyzer ==
    \/ load_gaf_source
    \/ call_get_unique_contributions
    \/ call_check_redundancy
    \/ call_get_unique_contributions_summary
    \/ call_find_redundant_references
    \/ call_compare_reference_sets
    \/ repeat_call
    \/ release_result

SpecAnalyzer == InitAnalyzer /\ [][NextAnalyzer]_vars

----------------------------------------------------------------------------
(* A run of the load command: the configuration is built, then load_all    *)
(* takes its steps                                                          *)

\* config = LoaderConfiguration(...), in a file system where Path(db) is
\* absent, a file or a directory
configure ==
    /\ loader.pc = "none"
    /\ \E config \in Configurations, file \in FileKinds :
          loader' = Loader("configured", config, file, "none", << >>, << >>, << >>)
    /\ UNCHANGED <<store, closure, last>>

\* load_all: config.check()
load_all_check ==
    /\ loader.pc = "configured"
    /\ LET r == check(loader.config, loader.file)
       IN  loader' = [loader EXCEPT
                         !.pc = IF r.error = "none" THEN "checked" ELSE "failed",
                         !.error = r.error,
                         !.file = r.file]
    /\ UNCHANGED <<store, closure, last>>

\* load_all: bulk_load_go_db(config).  config.connection opens the database,
\* which creates the file of a database that is not in memory.
load_all_bulk_load_go_db ==
    /\ loader.pc = "checked"
    /\ LET dbs == sqlite_dbs(loader.config)
           r == bulk_load_sqlite_to_duckdb_multi(dbs)
       IN  loader' = [loader EXCEPT
                         !.pc = IF r.error = "none" THEN "go_db_loaded" ELSE "failed",
                         !.error = r.error,
                         !.file = IF is_memory(loader.config) \/ Len(dbs) = 0
                                  THEN loader.file ELSE "file",
                         !.sqlite_dbs = dbs,
                         !.attached = r.attached,
                         !.loaded = r.loaded]
    /\ UNCHANGED <<store, closure, last>>

NextLoad ==
    \/ configure
    \/ load_all_check
    \/ load_all_bulk_load_go_db

SpecLoad == Init /\ [][NextLoad]_vars

----------------------------------------------------------------------------
(* compare_reference_sets query by query, with a writer on another         *)
(* connection to the same database.  The analyzer opens no transaction:    *)
(* each of its three statements reads the table as it is when it runs.     *)

\* What compare_reference_sets returns when all three queries read the
\* table as it is now
SingleStateTriple(reference_set1, reference_set2, evidence_type) ==
    <<query_unique_to_set1(reference_set1, reference_set2, evidence_type),
      query_unique_to_set2(reference_set1, reference_set2, evidence_type),
      query_overlap(reference_set1, reference_set2, evidence_type)>>

\* A call of compare_reference_sets under way: pc names the statement to
\* run next ("returned" and "raised" once it is over); seen collects, for
\* every state the table has been in since the call began, the triple of
\* that state
Comparing(pc, error, reference_set1, reference_set2, evidence_type, unique_to_set1, unique_to_set2, overlap, seen) ==
    [op |-> "compare_reference_sets",
     pc |-> pc,
     error |-> error,
     unique_to_set1 |-> unique_to_set1,
     unique_to_set2 |-> unique_to_set2,
     overlap |-> overlap,
     total_set1 |-> unique_to_set1 + overlap,
     total_set2 |-> unique_to_set2 + overlap,
     reference_set1 |-> reference_set1,
     reference_set2 |-> reference_set2,
     evidence_type |-> evidence_type,
     seen |-> seen]

\* unique_to_set1 = self.connection.sql(query_unique_to_set1).fetchone()[0]
run_query_unique_to_set1 ==
    /\ last.op = "none"
    /\ \E reference_set1 \in RefSetArgs, reference_set2 \in RefSetArgs,
          evidence_type \in CompareEvidenceArgs :
          IF Len(reference_set1) = 0 \/ Len(reference_set2) = 0
          THEN last' = Comparing("raised", "ParserException", reference_set1,
                                 reference_set2, evidence_type, 0, 0, 0, {})
          ELSE last' = Comparing("query_unique_to_set2", "none", reference_set1,
                           reference_set2, evidence_type,
                           query_unique_to_set1(reference_set1, reference_set2, evidence_type),
                           0, 0,
                           {SingleStateTriple(reference_set1, reference_set2, evidence_type)})
    /\ UNCHANGED <<store, closure, loader>>

\* unique_to_set2 = self.connection.sql(query_unique_to_set2).fetchone()[0]
run_query_unique_to_set2 ==
    /\ last.op = "compare_reference_sets"
    /\ last.pc = "query_unique_to_set2"
    /\ last' = [last EXCEPT
                   !.pc = "query_overlap",
                   !.unique_to_set2 =
                       query_unique_to_set2(last.reference_set1, last.reference_set2,
                                            last.evidence_type),
                   !.total_set2 =
                       query_unique_to_set2(last.reference_set1, last.reference_set2,
                                            last.evidence_type)]
    /\ UNCHANGED <<store, closure, loader>>

\* overlap = self.connection.sql(query_overlap).fetchone()[0]
\* return ReferenceComparison(...)
run_query_overlap ==
    /\ last.op = "compare_reference_sets"
    /\ last.pc = "query_overlap"
    /\ LET overlap == query_overlap(last.reference_set1, last.reference_set2,
                                    last.evidence_type)
       IN  last' = [last EXCEPT
                       !.pc = "returned",
                       !.overlap = overlap,
                       !.total_set1 = last.unique_to_set1 + overlap,
                       !.total_set2 = last.unique_to_set2 + overlap]
    /\ UNCHANGED <<store, closure, loader>>

\* Another connection inserts a row into gaf_association (load_gaf_source's
\* INSERT) while the call is between two of its statements
insert_between_queries ==
    /\ last.op = "compare_reference_sets"
    /\ last.pc \in {"query_unique_to_set2", "query_overlap"}
    /\ BagCardinality(store) < MaxRows
    /\ \E row \in Rows : store' = store (+) SetToBag({row})
    /\ \E reference_set1 \in {last.reference_set1},
          reference_set2 \in {last.reference_set2},
          evidence_type \in {last.evidence_type} :
          last' = [last EXCEPT
                      !.seen = @ \cup {SingleStateTriple(reference_set1, reference_set2,
                                                         evidence_type)'}]
    /\ UNCHANGED <<closure, loader>>

NextConcurrent ==
    \/ load_gaf_source
    \/ run_query_unique_to_set1
    \/ run_query_unique_to_set2
    \/ run_query_overlap
    \/ insert_between_queries

SpecConcurrent == Init /\ [][NextConcurrent]_vars

----------------------------------------------------------------------------
(* bulk_load_sqlite_to_duckdb_multi statement by statement, on a database  *)
(* that holds none of the tables yet                                        *)

\* Longest list of database paths
MaxDbs == 3

\* What an element of sqlite_dbs can be: bulk_load_go_db puts go_db_path
\* first, None included
PathArgs == {GoDbNone, GoDbStr(""), GoDbStr("go1.db"), GoDbStr("go2.db")}

SqliteDbsArgs == UNION {[1..n -> PathArgs] : n \in 0..MaxDbs}

\* The record kept of a call: idx is the position of the loop (counted from
\* 1), stmts the CREATE TABLE and INSERT INTO statements run so far, table
\* the databases whose rows the table holds, in the order they were copied
BulkLoad(pc, error, dbs, idx, stmts, table) ==
    [pc |-> pc, error |-> error, sqlite_dbs |-> dbs, idx |-> idx,
     stmts |-> stmts, table |-> table]

\* if not sqlite_dbs: raise ValueError(...)
call_bulk_load_sqlite_to_duckdb_multi ==
    /\ loader.pc = "none"
    /\ \E dbs \in SqliteDbsArgs :
          loader' = IF Len(dbs) = 0
                    THEN BulkLoad("raised", "ValueError", dbs, 1, << >>, << >>)
                    ELSE BulkLoad("loop", "none", dbs, 1, << >>, << >>)
    /\ UNCHANGED <<store, closure, last>>

\* if not sqlite_db: continue
skip_empty_path ==
    /\ loader.pc = "loop"
    /\ loader.idx <= Len(loader.sqlite_dbs)
    /\ ~TruthyPath(loader.sqlite_dbs[loader.idx])
    /\ loader' = [loader EXCEPT !.idx = @ + 1]
    /\ UNCHANGED <<store, closure, last>>

\* if idx == 0: CREATE TABLE ... AS SELECT * FROM alias.table
create_table ==
    /\ loader.pc = "loop"
    /\ loader.idx <= Len(loader.sqlite_dbs)
    /\ TruthyPath(loader.sqlite_dbs[loader.idx])
    /\ loader.idx = 1
    /\ loader' = [loader EXCEPT
                     !.idx = @ + 1,
                     !.stmts = Append(@, "CREATE TABLE"),
                     !.table = Append(@, loader.sqlite_dbs[loader.idx].path)]
    /\ UNCHANGED <<store, closure, last>>

\* else: INSERT INTO ... SELECT * FROM alias.table, which fails when the
\* table was never created
insert_into_table ==
    /\ loader.pc = "loop"
    /\ loader.idx <= Len(loader.sqlite_dbs)
    /\ TruthyPath(loader.sqlite_dbs[loader.idx])
    /\ loader.idx # 1
    /\ loader' = IF "CREATE TABLE" \in {loader.stmts[i] : i \in 1..Len(loader.stmts)}
                 THEN [loader EXCEPT
                          !.idx = @ + 1,
                          !.stmts = Append(@, "INSERT INTO"),
                          !.table = Append(@, loader.sqlite_dbs[loader.idx].path)]
                 ELSE [loader EXCEPT
                          !.pc = "raised",
                          !.error = "CatalogException",
                          !.stmts = Append(@, "INSERT INTO")]
    /\ UNCHANGED <<store, closure, last>>

\* After the loop: SELECT COUNT(*) FROM table, which fails when the table
\* was never created
count_rows ==
    /\ loader.pc = "loop"
    /\ loader.idx > Len(loader.sqlite_dbs)
    /\ loader' = IF "CREATE TABLE" \in {loader.stmts[i] : i \in 1..Len(loader.stmts)}
                 THEN [loader EXCEPT !.pc = "returned"]
                 ELSE [loader EXCEPT !.pc = "raised", !.error = "CatalogException"]
    /\ UNCHANGED <<store, closure, last>>

NextBulkLoad ==
    \/ call_bulk_load_sqlite_to_duckdb_multi
    \/ skip_empty_path
    \/ create_table
    \/ insert_into_table
    \/ count_rows

SpecBulkLoad == Init /\ [][NextBulkLoad]_vars

----------------------------------------------------------------------------
(* The load pipeline step by step: load_all, and the steps as               *)
(* tests/test_main.py calls them.  The DDL files of go_db.sql are not part  *)
(* of the sources at hand: load_ddl is taken to create the two flat tables  *)
(* the loaders insert into and the two views load_derived_tables            *)
(* materializes.                                                            *)

\* load_all: the calls it makes, in order
load_all_steps_GpiBeforeGaf ==
    <<"check", "bulk_load_go_db", "load_ddl", "load_gpi", "load_gaf",
      "load_derived_tables">>

load_all_steps ==
    <<"check", "bulk_load_go_db", "load_ddl", "load_gaf", "load_gpi",
      "load_derived_tables">>

\* test_load_derived_tables: the calls it makes, in order
test_load_derived_tables_steps ==
    <<"bulk_load_go_db", "load_ddl", "load_gaf", "load_derived_tables">>

Programs == {load_all_steps, test_load_derived_tables_steps}

\* tables = ["edge", "entailed_edge", "statements", "rdfs_subclass_of_statement"]
OntologyTables ==
    {<<"edge", "table">>, <<"entailed_edge", "table">>,
     <<"statements", "table">>, <<"rdfs_subclass_of_statement", "table">>}

\* What the DDL files create
DdlRelations ==
    {<<"gaf_association_flat", "table">>, <<"gpi_version_1_2_flat", "table">>,
     <<"gaf_association", "view">>, <<"gpi", "view">>}

\* The source files that can be read
ReadableSources == {"a.gaf", "a.gpi"}

\* for source in sources: INSERT INTO table SELECT * FROM read_csv(source),
\* from position i on.  Iterating None raises a TypeError.
RECURSIVE load_each(_, _, _, _, _)
load_each(sources, i, table, relations, loaded) ==
    IF sources.is_none
    THEN [error |-> "TypeError", loaded |-> loaded]
    ELSE IF i > Len(sources.items)
    THEN [error |-> "none", loaded |-> loaded]
    ELSE IF <<table, "table">> \notin relations
    THEN [error |-> "CatalogException", loaded |-> loaded]
    ELSE IF sources.items[i] \notin ReadableSources
    THEN [error |-> "IOException", loaded |-> loaded]
    ELSE load_each(sources, i + 1, table, relations,
                   Append(loaded, sources.items[i]))

\* materialize_view: CREATE TABLE v__tmp AS SELECT * FROM v; DROP VIEW v;
\* ALTER TABLE v__tmp RENAME TO v
materialize_view(relations, view_name) ==
    IF <<view_name, "view">> \in relations
    THEN [error |-> "none",
          relations |-> (relations \ {<<view_name, "view">>})
                        \cup {<<view_name, "table">>}]
    ELSE IF <<view_name, "table">> \in relations
    THEN [error |-> "CatalogException",
          relations |-> relations \cup {<<view_name \o "__tmp", "table">>}]
    ELSE [error |-> "CatalogException", relations |-> relations]

\* The record kept of a run of the pipeline: started lists the steps
\* called, returned those that returned, relations the tables and views of
\* the database, log the messages of load_all
Pipeline(pc, config, file, error, program, started, returned, relations, gaf, gpi, log) ==
    [pc |-> pc, config |-> config, file |-> file, error |-> error,
     program |-> program, started |-> started, returned |-> returned,
     relations |-> relations, gaf |-> gaf, gpi |-> gpi, log |-> log]

\* The step a run is in
InStep(step) ==
    /\ loader.pc = "in_step"
    /\ loader.started[Len(loader.started)] = step

\* The step returns, or raises error
StepEnds(error) ==
    [loader EXCEPT
        !.pc = IF error = "none" THEN "ready" ELSE "failed",
        !.error = error,
        !.returned = IF error = "none"
                     THEN Append(@, loader.started[Len(loader.started)])
                     ELSE @]

\* load_all(config) is called
load_all ==
    /\ loader.pc = "none"
    /\ \E config \in Configurations, file \in FileKinds :
          loader' = Pipeline("ready", config, file, "none", load_all_steps,
                             << >>, << >>, {}, << >>, << >>, << >>)
    /\ UNCHANGED <<store, closure, last>>

\* test_load_derived_tables is run: an in-memory database, nothing at its
\* path to check
test_load_derived_tables ==
    /\ loader.pc = "none"
    /\ \E config \in Configurations :
          /\ config.db = ":memory:"
          /\ loader' = Pipeline("ready", config, "absent", "none",
                                test_load_derived_tables_steps,
                                << >>, << >>, {}, << >>, << >>, << >>)
    /\ UNCHANGED <<store, closure, last>>

\* The next statement of the program calls its step
call_next_step ==
    /\ loader.pc = "ready"
    /\ Len(loader.returned) < Len(loader.program)
    /\ loader' = [loader EXCEPT
                     !.pc = "in_step",
                     !.started = Append(@, loader.program[Len(loader.returned) + 1])]
    /\ UNCHANGED <<store, closure, last>>

\* config.check()
config_check ==
    /\ InStep("check")
    /\ LET r == check(loader.config, loader.file)
       IN  loader' = [StepEnds(r.error) EXCEPT !.file = r.file]
    /\ UNCHANGED <<store, closure, last>>

\* bulk_load_go_db(config)
run_bulk_load_go_db ==
    /\ InStep("bulk_load_go_db")
    /\ LET r == bulk_load_sqlite_to_duckdb_multi(sqlite_dbs(loader.config))
       IN  loader' = [StepEnds(r.error) EXCEPT
                         !.file = IF is_memory(loader.config)
                                  THEN loader.file ELSE "file",
                         !.relations = IF Len(r.loaded) > 0
                                       THEN @ \cup OntologyTables ELSE @]
    /\ UNCHANGED <<store, closure, last>>

\* load_ddl(config)
load_ddl ==
    /\ InStep("load_ddl")
    /\ loader' = [StepEnds("none") EXCEPT !.relations = @ \cup DdlRelations]
    /\ UNCHANGED <<store, closure, last>>

\* load_gaf(config)
load_gaf ==
    /\ InStep("load_gaf")
    /\ LET r == load_each(loader.config.sources, 1, "gaf_association_flat",
                          loader.relations, << >>)
       IN  loader' = [StepEnds(r.error) EXCEPT !.gaf = r.loaded]
    /\ UNCHANGED <<store, closure, last>>

\* load_gpi(config)
load_gpi ==
    /\ InStep("load_gpi")
    /\ LET r == load_each(loader.config.gpi_sources, 1, "gpi_version_1_2_flat",
                          loader.relations, << >>)
       IN  loader' = [StepEnds(r.error) EXCEPT !.gpi = r.loaded]
    /\ UNCHANGED <<store, closure, last>>

\* load_derived_tables(config): the second view is materialized only when
\* the first was
load_derived_tables ==
    /\ InStep("load_derived_tables")
    /\ LET r1 == materialize_view(loader.relations, "gaf_association")
           r2 == materialize_view(r1.relations, "gpi")
           r == IF r1.error = "none" THEN r2 ELSE r1
       IN  loader' = [StepEnds(r.error) EXCEPT !.relations = r.relations]
    /\ UNCHANGED <<store, closure, last>>

\* logger.info("All steps completed.")
all_steps_completed ==
    /\ loader.pc = "ready"
    /\ loader.program = load_all_steps
    /\ loader.returned = loader.program
    /\ loader' = [loader EXCEPT
                     !.pc = "completed",
                     !.log = Append(@, "All steps completed.")]
    /\ UNCHANGED <<store, closure, last>>

\* The test function returns: the test passes
test_passed ==
    /\ loader.pc = "ready"
    /\ loader.program = test_load_derived_tables_steps
    /\ loader.returned = loader.program
    /\ loader' = [loader EXCEPT !.pc = "completed"]
    /\ UNCHANGED <<store, closure, last>>

NextLoadAll ==
    \/ load_all
    \/ test_load_derived_tables
    \/ call_next_step
    \/ config_check
    \/ run_bulk_load_go_db
    \/ load_ddl
    \/ load_gaf
    \/ load_gpi
    \/ load_derived_tables
    \/ all_steps_completed
    \/ test_passed

SpecLoadAll == Init /\ [][NextLoadAll]_vars

----------------------------------------------------------------------------
(* Properties *)

Reflexive == \A c \in Classes : <<c, c>> \in closure

\* A row of a result
InResult(a) == a \in DOMAIN last.annotations

\* C1, as stated: get_unique_contributions returns exactly the annotations a
\* that pass the evidence filter whenever an evidence_type is given, and for
\* which no a2 of the same gene product has a method value different from
\* a's (or, with a non-empty comparator list, a method value in the list) and
\* a class with (a2.class, a.class) in the closure.  "Given" and "different"
\* are read as written: any string is a given evidence_type, and a missing
\* (NULL) method value is different from a present one.
C1_AsStated ==
    (last.op = "get_unique_contributions"
        /\ (last.comparator_methods.is_none \/ Len(last.comparator_methods.items) > 0))
    => last.annotations =
         SelectRows(store,
            {a \in DOMAIN store :
                /\ (last.evidence_type # None => a.evidence_type = last.evidence_type)
                /\ ~ \E a2 \in DOMAIN store :
                      /\ a2.db_object_id = a.db_object_id
                      /\ IF last.comparator_methods.is_none
                         THEN a2[last.method] # a[last.method]
                         ELSE \E i \in 1..Len(last.comparator_methods.items) :
                                 a2[last.method] = last.comparator_methods.items[i]
                      /\ <<a2.ontology_class_ref, a.ontology_class_ref>> \in closure})

\* C1, amended: get_unique_contributions returns exactly the annotations a
\* that pass the evidence filter when a non-empty evidence_type is given (None
\* and the empty string apply no filter), and for which no a2 of the same
\* gene product has (a2.class, a.class) in the closure and a method value that
\* is, like a's, not NULL and different from a's (or, with a non-empty
\* comparator list, a method value in the list); count is their number.
C1_UniqueContributions ==
    (last.op = "get_unique_contributions"
        /\ (last.comparator_methods.is_none \/ Len(last.comparator_methods.items) > 0))
    => /\ last.annotations =
            SelectRows(store,
               {a \in DOMAIN store :
                   /\ (last.evidence_type \notin {None, ""}
                          => a.evidence_type = last.evidence_type)
                   /\ ~ \E a2 \in DOMAIN store :
                         /\ a2.db_object_id = a.db_object_id
                         /\ IF last.comparator_methods.is_none
                            THEN /\ a2[last.method] # NULL
                                 /\ a[last.method] # NULL
                                 /\ a2[last.method] # a[last.method]
                            ELSE \E i \in 1..Len(last.comparator_methods.items) :
                                    a2[last.method] = last.comparator_methods.items[i]
                         /\ <<a2.ontology_class_ref, a.ontology_class_ref>> \in closure})
       /\ last.count = BagCardinality(last.annotations)

\* C1 witness: an IEA-filtered default-mode call that returns one IEA row
\* and leaves out another IEA row, which a row of the same gene subsumes
C1_Witness ==
    /\ last.op = "get_unique_contributions"
    /\ last.evidence_type = "IEA"
    /\ last.comparator_methods.is_none
    /\ \E a, b \in DOMAIN store :
          /\ a.evidence_type = "IEA" /\ ~InResult(a)
          /\ b.evidence_type = "IEA" /\ InResult(b)
          /\ a.db_object_id = b.db_object_id

\* The scenario of C2: gene product g carries exactly an annotation s on the
\* specific class (method m1) and an IEA annotation b on the broad class
\* (method m2 # m1); the closure holds (specific, broad) and the reflexive
\* pairs, not (broad, specific)
SubsumptionScenario(s, b) ==
    /\ s \in DOMAIN store /\ b \in DOMAIN store
    /\ s.db_object_id = b.db_object_id
    /\ \A r \in DOMAIN store : r.db_object_id = s.db_object_id => r \in {s, b}
    /\ s.ontology_class_ref # b.ontology_class_ref
    /\ s.supporting_references # NULL /\ b.supporting_references # NULL
    /\ s.supporting_references # b.supporting_references
    /\ b.evidence_type = "IEA"
    /\ <<s.ontology_class_ref, b.ontology_class_ref>> \in closure
    /\ <<b.ontology_class_ref, s.ontology_class_ref>> \notin closure
    /\ Reflexive

\* C2: in the subsumption scenario, get_unique_contributions(evidence_type =
\* 'IEA') leaves out the annotation on the broad class, and the unfiltered
\* call returns the annotation on the specific class (and not the broad one):
\* the broader annotation is the non-novel one, never the more specific.
C2_SubsumptionDirection ==
    (last.op = "get_unique_contributions" /\ last.comparator_methods.is_none)
    => \A s, b \in DOMAIN store :
          SubsumptionScenario(s, b) =>
             /\ last.evidence_type = "IEA" => ~InResult(b)
             /\ last.evidence_type = None => (InResult(s) /\ ~InResult(b))

\* C2 witness: the IEA-filtered call made in the scenario, the specific
\* annotation being of evidence type EXP
C2_Witness ==
    /\ last.op = "get_unique_contributions"
    /\ last.comparator_methods.is_none
    /\ last.evidence_type = "IEA"
    /\ \E s, b \in DOMAIN store :
          SubsumptionScenario(s, b) /\ s.evidence_type = "EXP" /\ ~InResult(b)

\* C3: the rows with supporting_references = r and evidence_type = e are
\* partitioned by find_redundant_references(r, e) and
\* get_unique_contributions('supporting_references', e): each such row, with
\* all its copies, is in exactly one of the two results.
C3_RedundantUniquePartition ==
    last.op = "find_redundant_references"
    => LET unique == get_unique_contributions("supporting_references",
                                              last.evidence_type, PyNone).annotations
       IN  \A a \in DOMAIN store :
              (a.supporting_references = last.reference
                  /\ a.evidence_type = last.evidence_type)
              => \/ /\ InResult(a) /\ last.annotations[a] = store[a]
                    /\ a \notin DOMAIN unique
                 \/ /\ ~InResult(a)
                    /\ a \in DOMAIN unique /\ unique[a] = store[a]

\* C3 witness: find_redundant_references found a row of the reference
\* redundant
C3_Witness ==
    /\ last.op = "find_redundant_references"
    /\ \E a \in DOMAIN store :
          /\ a.supporting_references = last.reference
          /\ a.evidence_type = last.evidence_type
          /\ InResult(a)

\* The values of a list, as a set
Items(l) == {l.items[i] : i \in 1..Len(l.items)}

\* C4, as stated: for comparator lists S1 and S2 with S1 a subset of S2 (the
\* empty list included), the result of get_unique_contributions under S2 is
\* a subset of its result under S1.
C4_ComparatorMonotone ==
    (last.op = "get_unique_contributions" /\ ~last.comparator_methods.is_none)
    => \A S1 \in ComparatorArgs :
          (~S1.is_none /\ Items(S1) \subseteq Items(last.comparator_methods))
          => last.annotations \sqsubseteq
                get_unique_contributions(last.method, last.evidence_type, S1).annotations

\* C4 witness: a call with comparator ["R1", "R2"] returns strictly less than
\* the call with comparator ["R1"] would
C4_Witness ==
    /\ last.op = "get_unique_contributions"
    /\ last.comparator_methods = PyList(<<"R1", "R2">>)
    /\ last.annotations #
          get_unique_contributions(last.method, last.evidence_type,
                                   PyList(<<"R1">>)).annotations

\* C5, as stated: with a reflexive closure, an annotation a that is the only
\* annotation of its gene product is returned by get_unique_contributions
\* and check_redundancy (called with a's evidence type) for every
\* comparator_methods value, a list holding a's own method value included.
C5_NeverSelfRedundant ==
    (last.op \in {"get_unique_contributions", "check_redundancy"} /\ Reflexive)
    => \A a \in DOMAIN store :
          (/\ store[a] = 1
           /\ \A r \in DOMAIN store : r.db_object_id = a.db_object_id => r = a
           /\ last.evidence_type = a.evidence_type)
          => InResult(a)

\* C5 witness: a call whose comparator list holds the method value of the
\* only annotation of a gene product, the closure being reflexive
C5_Witness ==
    /\ last.op \in {"get_unique_contributions", "check_redundancy"}
    /\ Reflexive
    /\ ~last.comparator_methods.is_none
    /\ \E a \in DOMAIN store :
          /\ store[a] = 1
          /\ \A r \in DOMAIN store : r.db_object_id = a.db_object_id => r = a
          /\ last.evidence_type = a.evidence_type
          /\ a[last.method] \in Items(last.comparator_methods)

\* C6, as stated: with comparator_methods = [] no row satisfies the
\* comparator clause, so get_unique_contributions and check_redundancy
\* return every annotation that passes the evidence filter.
C6_EmptyComparatorDistinct ==
    (/\ last.op \in {"get_unique_contributions", "check_redundancy"}
     /\ last.comparator_methods = PyList(<< >>)
     /\ last.evidence_type # "")
    => last.annotations =
          SelectRows(store,
             {a \in DOMAIN store :
                 last.evidence_type # None => a.evidence_type = last.evidence_type})

\* C6 witness: a call with the empty list on a table in which a row has a
\* more specific or equal companion of another method
C6_Witness ==
    /\ last.op \in {"get_unique_contributions", "check_redundancy"}
    /\ last.comparator_methods = PyList(<< >>)
    /\ last.evidence_type = "IEA"
    /\ \E a \in DOMAIN store : a.evidence_type = "IEA" /\ ~InResult(a)

\* C7, as stated: check_redundancy and get_unique_contributions return the
\* same annotations and the same count for every method, comparator list and
\* evidence_type string passed to both.
C7_AsStated ==
    last.op = "check_redundancy"
    => LET u == get_unique_contributions(last.method, last.evidence_type,
                                         last.comparator_methods)
       IN  last.annotations = u.annotations /\ last.count = u.count

\* C7, amended: check_redundancy and get_unique_contributions return the same
\* annotations and the same count for every method, comparator list and
\* NON-EMPTY evidence_type string passed to both (for the empty string
\* check_redundancy filters on it and get_unique_contributions does not
\* filter).
C7_SameForNonEmptyEvidence ==
    /\ (last.op = "check_redundancy" /\ last.evidence_type # "")
       => LET u == get_unique_contributions(last.method, last.evidence_type,
                                            last.comparator_methods)
          IN  last.annotations = u.annotations /\ last.count = u.count
    /\ (last.op = "get_unique_contributions" /\ last.evidence_type \notin {None, ""})
       => LET c == check_redundancy(last.method, last.evidence_type,
                                    last.comparator_methods)
          IN  last.annotations = c.annotations /\ last.count = c.count

\* C7 witness: check_redundancy('IEA') with a comparator list returns a row
\* and leaves out an IEA row
C7_Witness ==
    /\ last.op = "check_redundancy"
    /\ last.evidence_type = "IEA"
    /\ TruthyList(last.comparator_methods)
    /\ last.count > 0
    /\ \E a \in DOMAIN store : a.evidence_type = "IEA" /\ ~InResult(a)

RECURSIVE SumCounts(_)
SumCounts(summaries) ==
    IF summaries = << >> THEN 0
    ELSE Head(summaries).contribution_count + SumCounts(Tail(summaries))

\* C8, as stated: whenever get_unique_contributions_summary returns a result
\* (rows with a null group-by field included), the contribution_counts add
\* up to total_unique, and total_unique is the count of
\* get_unique_contributions with the same arguments.
C8_SummaryTotals ==
    (last.op = "get_unique_contributions_summary" /\ last.error = "none")
    => /\ SumCounts(last.summaries) = last.total_unique
       /\ last.total_unique =
             get_unique_contributions(last.method, last.evidence_type,
                                      last.comparator_methods).count

\* C8 witness: a summary over unique rows one of which has a null
\* supporting_references, grouped by the default fields
C8_Witness ==
    /\ last.op = "get_unique_contributions_summary"
    /\ last.error = "none"
    /\ last.group_by.is_none
    /\ \E a \in DOMAIN get_unique_contributions(last.method, last.evidence_type,
                                                last.comparator_methods).annotations :
          a.supporting_references = NULL

\* C9, as stated: if group_by names a field absent from the annotation
\* rows, get_unique_contributions_summary fails with an error for every
\* annotation store, one with no unique contribution included.
C9_MissingFieldFails ==
    (/\ last.op = "get_unique_contributions_summary"
     /\ ~last.group_by.is_none
     /\ \E f \in Items(last.group_by) : f \notin Columns)
    => last.error # "none"

\* C9 witness: a summary grouped by an absent field that fails with KeyError
C9_Witness ==
    /\ last.op = "get_unique_contributions_summary"
    /\ \E f \in Items(last.group_by) : f \notin Columns
    /\ last.error = "KeyError"

\* C10, as stated: find_redundant_references(reference, evidence_type)
\* returns exactly the annotations a of that reference and evidence type for
\* which some a2 of the same gene product has supporting_references !=
\* reference and (a2.class, a.class) in the closure, a missing (NULL)
\* reference counting as a value other than reference.
C10_AsStated ==
    last.op = "find_redundant_references"
    => last.annotations =
          SelectRows(store,
             {a \in DOMAIN store :
                 /\ a.supporting_references = last.reference
                 /\ a.evidence_type = last.evidence_type
                 /\ \E a2 \in DOMAIN store :
                       /\ a2.db_object_id = a.db_object_id
                       /\ a2.supporting_references # last.reference
                       /\ <<a2.ontology_class_ref, a.ontology_class_ref>> \in closure})

\* C10, amended: find_redundant_references(reference, evidence_type) returns
\* exactly the annotations a of that reference and evidence type for which
\* some a2 of the same gene product has a supporting_references that is NOT
\* NULL and != reference, and (a2.class, a.class) in the closure; every
\* returned row has that reference and evidence type.
C10_RedundantReferences ==
    last.op = "find_redundant_references"
    => /\ last.annotations =
             SelectRows(store,
                {a \in DOMAIN store :
                    /\ a.supporting_references = last.reference
                    /\ a.evidence_type = last.evidence_type
                    /\ \E a2 \in DOMAIN store :
                          /\ a2.db_object_id = a.db_object_id
                          /\ a2.supporting_references # NULL
                          /\ a2.supporting_references # last.reference
                          /\ <<a2.ontology_class_ref, a.ontology_class_ref>> \in closure})
       /\ \A a \in DOMAIN last.annotations :
             /\ a.supporting_references = last.reference
             /\ a.evidence_type = last.evidence_type
       /\ last.count = BagCardinality(last.annotations)

\* C10 witness: find_redundant_references returns a row that an annotation
\* of another reference on a different class of the same gene product
\* subsumes
C10_Witness ==
    /\ last.op = "find_redundant_references"
    /\ \E a \in DOMAIN last.annotations : \E a2 \in DOMAIN store :
          /\ a2.db_object_id = a.db_object_id
          /\ a2.ontology_class_ref # a.ontology_class_ref
          /\ a2.supporting_references \notin {NULL, last.reference}
          /\ <<a2.ontology_class_ref, a.ontology_class_ref>> \in closure
          /\ <<a.ontology_class_ref, a.ontology_class_ref>> \notin closure

----------------------------------------------------------------------------
(* compare_reference_sets *)

\* The (db_object_id, ontology_class_ref) pairs of a set of rows
Pairs(S) == {<<a.db_object_id, a.ontology_class_ref>> : a \in S}

\* The rows of the store that pass an optional evidence_type filter
Filtered(evidence_type) ==
    {a \in DOMAIN store : evidence_type # None => a.evidence_type = evidence_type}

\* The rows of S whose reference is one of reference_set
InSet(S, reference_set) ==
    {a \in S : \E i \in 1..Len(reference_set) : a.supporting_references = reference_set[i]}

\* C11: compare_reference_sets partitions the annotations that pass the
\* optional evidence_type filter: unique_to_set1 is the number of distinct
\* (db_object_id, ontology_class_ref) pairs that, among the filtered
\* annotations, have an annotation with a reference in set1 and none with a
\* reference in set2; unique_to_set2 is the same with the sets exchanged;
\* overlap is the number of pairs that have both among them.
C11_AsStated ==
    (last.op = "compare_reference_sets" /\ last.error = "none")
    => LET F == Filtered(last.evidence_type)
           P1 == Pairs(InSet(F, last.reference_set1))
           P2 == Pairs(InSet(F, last.reference_set2))
       IN  /\ last.unique_to_set1 = Cardinality(P1 \ P2)
           /\ last.unique_to_set2 = Cardinality(P2 \ P1)
           /\ last.overlap = Cardinality(P1 \cap P2)

\* A comparison filtered on IEA, of a pair annotated by R1 with IEA and by
\* R2 with EXP only
C11_Witness ==
    /\ last.op = "compare_reference_sets"
    /\ last.error = "none"
    /\ last.evidence_type = "IEA"
    /\ last.reference_set1 = <<"R1">>
    /\ last.reference_set2 = <<"R2">>
    /\ store = SetToBag({[db_object_id |-> "G1", ontology_class_ref |-> "C1",
                          supporting_references |-> "R1", evidence_type |-> "IEA"],
                         [db_object_id |-> "G1", ontology_class_ref |-> "C1",
                          supporting_references |-> "R2", evidence_type |-> "EXP"]})
    /\ last.unique_to_set1 = 0
    /\ last.overlap = 1

\* The partition as the queries compute it, for a truthy or absent
\* evidence_type: the filter is applied to the counted row only, the row of
\* the other set may have any evidence_type
C11_OuterRowFiltered ==
    (last.op = "compare_reference_sets" /\ last.error = "none" /\ last.evidence_type # "")
    => LET F == Filtered(last.evidence_type)
           P1 == Pairs(InSet(F, last.reference_set1))
           P2 == Pairs(InSet(F, last.reference_set2))
           A1 == Pairs(InSet(DOMAIN store, last.reference_set1))
           A2 == Pairs(InSet(DOMAIN store, last.reference_set2))
       IN  /\ last.unique_to_set1 = Cardinality(P1 \ A2)
           /\ last.unique_to_set2 = Cardinality(P2 \ A1)
           /\ last.overlap = Cardinality(P1 \cap A2)

\* C12: for every two non-empty reference sets S1 and S2, every store and
\* every evidence_type (given or absent), compare(S1, S2, e).unique_to_set1
\* equals compare(S2, S1, e).unique_to_set2.
C12_UniqueSymmetry ==
    (last.op = "compare_reference_sets" /\ last.error = "none")
    => LET swapped == compare_reference_sets(last.reference_set2, last.reference_set1,
                                             last.evidence_type)
       IN  /\ swapped.error = "none"
           /\ last.unique_to_set1 = swapped.unique_to_set2

\* A filtered comparison in which set1 has a pair of its own and the two
\* unique counts differ
C12_Witness ==
    /\ last.op = "compare_reference_sets"
    /\ last.error = "none"
    /\ last.evidence_type = "IEA"
    /\ last.unique_to_set1 > 0
    /\ last.unique_to_set1 # last.unique_to_set2
    /\ last.overlap > 0

\* C13: for every two non-empty reference sets S1 and S2, every store and
\* every evidence_type (given or absent), compare(S1, S2, e).overlap equals
\* compare(S2, S1, e).overlap.
C13_OverlapSymmetry ==
    (last.op = "compare_reference_sets" /\ last.error = "none")
    => LET swapped == compare_reference_sets(last.reference_set2, last.reference_set1,
                                             last.evidence_type)
       IN  /\ swapped.error = "none"
           /\ last.overlap = swapped.overlap

\* A filtered comparison whose overlap is 1 one way round and 0 the other
C13_Witness ==
    /\ last.op = "compare_reference_sets"
    /\ last.error = "none"
    /\ last.evidence_type = "IEA"
    /\ last.reference_set1 = <<"R1">>
    /\ last.reference_set2 = <<"R2">>
    /\ last.overlap = 1
    /\ compare_reference_sets(<<"R2">>, <<"R1">>, "IEA").overlap = 0

\* The overlap is symmetric when no evidence filter is applied
C13_SymmetricUnfiltered ==
    (last.op = "compare_reference_sets" /\ last.error = "none"
        /\ ~TruthyStr(last.evidence_type))
    => last.overlap = compare_reference_sets(last.reference_set2, last.reference_set1,
                                             last.evidence_type).overlap

\* The pairs of the store with a row of the given reference
PairsOf(reference) ==
    Pairs({a \in DOMAIN store : a.supporting_references = reference})

\* Three pairs annotated by R1 only, two by R2 only, one by both
ThreeTwoOne ==
    /\ Cardinality(PairsOf("R1") \ PairsOf("R2")) = 3
    /\ Cardinality(PairsOf("R2") \ PairsOf("R1")) = 2
    /\ Cardinality(PairsOf("R1") \cap PairsOf("R2")) = 1
    /\ \A a \in DOMAIN store : a.supporting_references \in {"R1", "R2"}

\* C14: with no evidence filter, on a store with three pairs annotated only
\* by R1, two only by R2 and one by both, compare_reference_sets([R1], [R2])
\* returns unique_to_set1 = 3, unique_to_set2 = 2, overlap = 1,
\* total_set1 = 4 and total_set2 = 3; in every result total_set1 =
\* unique_to_set1 + overlap and total_set2 = unique_to_set2 + overlap; and
\* loading a duplicate of a row changes none of the counts.
C14_ThreeTwoOne ==
    /\ [](last.op = "compare_reference_sets" =>
            /\ last.total_set1 = last.unique_to_set1 + last.overlap
            /\ last.total_set2 = last.unique_to_set2 + last.overlap
            /\ ThreeTwoOne =>
                  /\ last.unique_to_set1 = 3
                  /\ last.unique_to_set2 = 2
                  /\ last.overlap = 1
                  /\ last.total_set1 = 4
                  /\ last.total_set2 = 3)
    /\ [][(store' # store /\ DOMAIN store' = DOMAIN store) =>
            compare_reference_sets(<<"R1">>, <<"R2">>, None)'
                = compare_reference_sets(<<"R1">>, <<"R2">>, None)]_vars

\* The comparison made on the three-two-one store, the pair of both
\* references holding a duplicate row
C14_Witness ==
    /\ last.op = "compare_reference_sets"
    /\ ThreeTwoOne
    /\ \E a \in DOMAIN store :
          /\ store[a] > 1
          /\ <<a.db_object_id, a.ontology_class_ref>> \in PairsOf("R1") \cap PairsOf("R2")

\* C15: compare_reference_sets does not depend on the closure: run with the
\* same arguments against the same store under two closures (the empty one
\* included) it returns the same result, whereas get_unique_contributions
\* does depend on the closure.
C15_ClosureIndependent ==
    [][closure' # closure =>
          \A reference_set1 \in RefSetArgs \ {<< >>},
             reference_set2 \in RefSetArgs \ {<< >>},
             evidence_type \in CompareEvidenceArgs :
                compare_reference_sets(reference_set1, reference_set2, evidence_type)'
                    = compare_reference_sets(reference_set1, reference_set2, evidence_type)]_vars

\* A comparison that found a pair of set1 alone, with a closure under which
\* get_unique_contributions leaves out a row it returns under the empty
\* closure
C15_Witness ==
    /\ last.op = "compare_reference_sets"
    /\ last.error = "none"
    /\ last.unique_to_set1 > 0
    /\ closure # {}
    /\ get_unique_contributions("supporting_references", None, PyNone).count
          < BagCardinality(store)

----------------------------------------------------------------------------
(* Frame of the analyzer's operations *)

\* The groups of a summary, whatever the order they are listed in
Groups(summaries) == {summaries[i] : i \in 1..Len(summaries)}

\* Two records of one call holding the same result.  Lists of rows and of
\* groups are compared as the collections they list.
SameResult(c, d) ==
    /\ c.op = d.op
    /\ c.error = d.error
    /\ IF c.op = "compare_reference_sets"
       THEN c = d
       ELSE /\ c.annotations = d.annotations
            /\ c.count = d.count
            /\ c.total_unique = d.total_unique
            /\ Len(c.summaries) = Len(d.summaries)
            /\ Groups(c.summaries) = Groups(d.summaries)

\* C16: after any sequence of calls to check_redundancy,
\* get_unique_contributions, get_unique_contributions_summary,
\* find_redundant_references and compare_reference_sets, successful or
\* failing, the annotation store and the closure are unchanged, and a call
\* repeated with the same arguments returns the same result.
C16_ReadOnly ==
    [][/\ (last.op # "none" \/ last'.op # "none") => UNCHANGED <<store, closure>>
       /\ (last.op # "none" /\ last'.op # "none") => SameResult(last, last')]_vars

\* A failing summary call made after both tables were loaded
C16_Witness ==
    /\ last.op = "get_unique_contributions_summary"
    /\ last.error = "KeyError"
    /\ BagCardinality(store) = MaxRows
    /\ closure # {}

----------------------------------------------------------------------------
(* The loader *)

\* A step in which config.check() runs
CheckStep == loader.pc = "configured" /\ loader'.pc # "configured"

\* C17: whenever check() returns without error, either db is ':memory:' or
\* no file exists at the db path (an existing file is deleted only when
\* force is set and append is not); when a file exists and force is not set
\* it raises ValueError, when a file exists and append is set it raises
\* NotImplementedError, and in both error cases the file is left in place
\* unchanged.  The two cases of an existing file are read for a database
\* that is not in memory.
C17_AsStated ==
    [][CheckStep =>
        LET config == loader.config
            exists == loader.file # "absent" /\ ~is_memory(config)
        IN  /\ loader'.error = "none" => (is_memory(config) \/ loader'.file = "absent")
            /\ loader'.file # loader.file => (config.force /\ ~config.append)
            /\ (exists /\ ~config.force) => loader'.error = "ValueError"
            /\ (exists /\ config.append) => loader'.error = "NotImplementedError"
            /\ loader'.error \in {"ValueError", "NotImplementedError"}
                  => loader'.file = loader.file]_vars

\* The same with ValueError raised when neither append nor force is set:
\* append is tested first, so an existing file with append set raises
\* NotImplementedError whatever force is.
C17_AppendFirst ==
    [][CheckStep =>
        LET config == loader.config
            exists == loader.file # "absent" /\ ~is_memory(config)
        IN  /\ loader'.error = "none" => (is_memory(config) \/ loader'.file = "absent")
            /\ loader'.file # loader.file =>
                  /\ loader.file = "file"
                  /\ loader'.file = "absent"
                  /\ config.force /\ ~config.append /\ ~is_memory(config)
            /\ (exists /\ ~config.append /\ ~config.force) => loader'.error = "ValueError"
            /\ (exists /\ config.append) => loader'.error = "NotImplementedError"
            /\ loader'.error # "none" => loader'.file = loader.file]_vars

\* check() has raised NotImplementedError for an existing file, append set
\* and force not set
C17_Witness ==
    /\ loader.pc = "failed"
    /\ loader.error = "NotImplementedError"
    /\ loader.config.append
    /\ ~loader.config.force
    /\ loader.file = "file"

\* C18: when go_db_path is a list of n paths (as the load command builds it
\* when -g is given several times), bulk_load_go_db passes a flat list of
\* path strings to bulk_load_sqlite_to_duckdb_multi, the n paths followed
\* by additional_db_paths, and each of the n databases is attached and
\* loaded, in order, followed by those of additional_db_paths.
C18_AsStated ==
    loader.pc \in {"go_db_loaded", "failed"} /\ loader.sqlite_dbs # << >>
        /\ loader.config.go_db_path.kind = "list"
    => LET paths == loader.config.go_db_path.items
                    \o (IF loader.config.additional_db_paths.is_none
                        THEN << >>
                        ELSE loader.config.additional_db_paths.items)
       IN  /\ loader.sqlite_dbs = Wrapped(paths)
           /\ loader.attached = paths
           /\ loader.loaded = paths

\* bulk_load_go_db has run with go_db_path a list of two paths, hands on a
\* list whose first element is that list, and nothing was attached
C18_Witness ==
    /\ loader.pc = "failed"
    /\ loader.config.go_db_path = GoDbList(<<"go1.db", "go2.db">>)
    /\ loader.config.additional_db_paths = PyList(<<"other.db">>)
    /\ Len(loader.sqlite_dbs) = 2
    /\ loader.sqlite_dbs[1] = GoDbList(<<"go1.db", "go2.db">>)
    /\ loader.error = "ParserException"
    /\ loader.attached = << >>

\* With go_db_path a single path the list handed on is flat, and the
\* database and those of additional_db_paths are attached and loaded in
\* order
C18_SinglePath ==
    loader.pc \in {"go_db_loaded", "failed"} /\ loader.sqlite_dbs # << >>
        /\ loader.config.go_db_path.kind = "str" /\ loader.config.go_db_path.path # ""
    => LET paths == <<loader.config.go_db_path.path>>
                    \o (IF loader.config.additional_db_paths.is_none
                        THEN << >>
                        ELSE loader.config.additional_db_paths.items)
       IN  /\ loader.sqlite_dbs = Wrapped(paths)
           /\ loader.attached = paths
           /\ loader.loaded = paths
           /\ loader.error = "none"

----------------------------------------------------------------------------
(* Order of the summary *)

\* The column values of the model in ascending order, as Python compares
\* strings
ValueOrder == <<"EXP", "IEA", "R1", "R2">>

RankOf(v) == CHOOSE i \in 1..Len(ValueOrder) : ValueOrder[i] = v

\* Group key k1 comes before k2: tuples are compared field by field
KeyLess(k1, k2) ==
    \E i \in 1..Len(k1) :
        /\ \A j \in 1..(i - 1) : k1[j] = k2[j]
        /\ RankOf(k1[i]) < RankOf(k2[i])

C19_NonIncreasing ==
    (last.op = "get_unique_contributions_summary" /\ last.error = "none")
    => \A i, j \in 1..Len(last.summaries) :
          i < j => last.summaries[i].contribution_count >= last.summaries[j].contribution_count

----------------------------------------------------------------------------
(* Mutual redundancy on one class *)

\* Two rows of the store for one gene product and one class
SamePair(a, b) ==
    /\ a \in DOMAIN store
    /\ b \in DOMAIN store
    /\ a.db_object_id = b.db_object_id
    /\ a.ontology_class_ref = b.ontology_class_ref

\* A call of get_unique_contributions or check_redundancy in default mode
\* (no comparator list in effect), under a reflexive closure
DefaultModeCall ==
    /\ last.op \in {"get_unique_contributions", "check_redundancy"}
    /\ ~TruthyList(last.comparator_methods)
    /\ Reflexive

\* C20: under a reflexive closure, of two annotations for the same gene
\* product on the same class with different method values each is matched
\* by the other in default mode, and neither is returned by
\* get_unique_contributions or check_redundancy.  A missing (NULL) method
\* value is read as different from a present one.
C20_AsStated ==
    DefaultModeCall
    => \A a, b \in DOMAIN store :
          (SamePair(a, b) /\ a[last.method] # b[last.method])
          => (~InResult(a) /\ ~InResult(b))

\* The same for two method values that are both present
C20_MutuallyRedundant ==
    DefaultModeCall
    => \A a, b \in DOMAIN store :
          (SamePair(a, b) /\ SqlNe(a[last.method], b[last.method]))
          => (~InResult(a) /\ ~InResult(b))

\* Two annotations of one pair by R1 and R2 that pass the evidence filter,
\* queried in default mode under a reflexive closure
C20_Witness ==
    /\ DefaultModeCall
    /\ \E a, b \in DOMAIN store :
          /\ SamePair(a, b)
          /\ a.supporting_references = "R1"
          /\ b.supporting_references = "R2"
          /\ a.evidence_type = last.evidence_type
          /\ b.evidence_type = last.evidence_type
          /\ ~InResult(a)
          /\ ~InResult(b)
    /\ last.count = 0

----------------------------------------------------------------------------
(* Counts and duplicates *)

\* A call of one of the three operations that return UniqueContributions
ReturnsUniqueContributions ==
    last.op \in {"check_redundancy", "get_unique_contributions",
                 "find_redundant_references"}

\* C21: in every UniqueContributions result of check_redundancy,
\* get_unique_contributions and find_redundant_references, count is the
\* number of entries of annotations, and duplicates are kept: a row of the
\* result appears as many times as the store holds it, and count includes
\* every copy; in default mode the copies of one row never make each other
\* redundant, so a store that holds nothing but copies of one row is
\* returned whole by get_unique_contributions and check_redundancy when the
\* row passes the evidence filter.
C21_CountsEveryCopy ==
    ReturnsUniqueContributions
    => /\ last.count = BagCardinality(last.annotations)
       /\ \A a \in DOMAIN last.annotations : last.annotations[a] = store[a]
       /\ (/\ last.op # "find_redundant_references"
           /\ ~TruthyList(last.comparator_methods)
           /\ Cardinality(DOMAIN store) = 1
           /\ \A a \in DOMAIN store :
                 IF last.op = "check_redundancy"
                 THEN a.evidence_type = last.evidence_type
                 ELSE TruthyStr(last.evidence_type) => a.evidence_type = last.evidence_type)
          => (last.annotations = store /\ last.count = BagCardinality(store))

\* Two copies of one annotation, both returned in default mode under a
\* closure that holds the reflexive pairs
C21_Witness ==
    /\ last.op = "get_unique_contributions"
    /\ last.comparator_methods.is_none
    /\ Reflexive
    /\ last.count = 2
    /\ \E a \in DOMAIN store : store[a] = 2 /\ a \in DOMAIN last.annotations
                                /\ last.annotations[a] = 2

\* C22: for every store, reference sets S1 and S2 and evidence_type (given
\* or absent), total_set1 of compare_reference_sets is the number of
\* distinct (db_object_id, ontology_class_ref) pairs that have an
\* annotation with a reference in S1 that passes the evidence filter, and
\* total_set2 the number of those that have one with a reference in S2.
C22_AsStated ==
    (last.op = "compare_reference_sets" /\ last.error = "none")
    => LET F == Filtered(last.evidence_type)
       IN  /\ last.total_set1 = Cardinality(Pairs(InSet(F, last.reference_set1)))
           /\ last.total_set2 = Cardinality(Pairs(InSet(F, last.reference_set2)))

\* A comparison filtered on IEA of a pair annotated by R2 with IEA and by
\* R1 with EXP only: set2 has a filtered pair and total_set2 is 0
C22_Witness ==
    /\ last.op = "compare_reference_sets"
    /\ last.error = "none"
    /\ last.evidence_type = "IEA"
    /\ last.reference_set1 = <<"R1">>
    /\ last.reference_set2 = <<"R2">>
    /\ store = SetToBag({[db_object_id |-> "G1", ontology_class_ref |-> "C1",
                          supporting_references |-> "R1", evidence_type |-> "EXP"],
                         [db_object_id |-> "G1", ontology_class_ref |-> "C1",
                          supporting_references |-> "R2", evidence_type |-> "IEA"]})
    /\ last.total_set2 = 0

\* total_set1 is the independent count under every filter, total_set2 when
\* no filter is applied
C22_TotalSet1 ==
    (last.op = "compare_reference_sets" /\ last.error = "none")
    => LET F == Filtered(last.evidence_type)
       IN  /\ last.total_set1 = Cardinality(Pairs(InSet(F, last.reference_set1)))
           /\ ~TruthyStr(last.evidence_type) =>
                 last.total_set2 = Cardinality(Pairs(InSet(F, last.reference_set2)))

----------------------------------------------------------------------------
(* compare_reference_sets beside a writer *)

\* C23: compare_reference_sets issues three separate queries; when another
\* process inserts annotation rows between them, the triple returned is
\* still the triple compare_reference_sets would return on one single state
\* of the store (the state before, between or after the writes).
C23_AsStated ==
    (last.op = "compare_reference_sets" /\ last.pc = "returned")
    => <<last.unique_to_set1, last.unique_to_set2, last.overlap>> \in last.seen

\* The call has returned (1, 0, 1) for R1 against R2: the pair (G1, C1) had
\* its R1 row alone when the first query ran and its R2 row too when the
\* other two ran
C23_Witness ==
    /\ last.op = "compare_reference_sets"
    /\ last.pc = "returned"
    /\ last.reference_set1 = <<"R1">>
    /\ last.reference_set2 = <<"R2">>
    /\ last.evidence_type = None
    /\ <<last.unique_to_set1, last.unique_to_set2, last.overlap>> = <<1, 0, 1>>
    /\ last.total_set1 = 2
    /\ last.seen = {<<1, 0, 0>>, <<0, 0, 1>>}
    /\ Cardinality(Pairs(DOMAIN store)) = 1

\* When every state the table was in during the call gives one and the
\* same triple (no write, or writes that change none of the counts), that
\* triple is returned
C23_NoWriteBetween ==
    (last.op = "compare_reference_sets" /\ last.pc = "returned"
        /\ Cardinality(last.seen) = 1)
    => <<last.unique_to_set1, last.unique_to_set2, last.overlap>> \in last.seen

----------------------------------------------------------------------------
(* Tables of the bulk load *)

\* The paths of a list that the loop does not skip, in order
RECURSIVE NonSkipped(_)
NonSkipped(dbs) ==
    IF Len(dbs) = 0 THEN << >>
    ELSE IF TruthyPath(dbs[1]) THEN <<dbs[1].path>> \o NonSkipped(Tail(dbs))
    ELSE NonSkipped(Tail(dbs))

BulkLoadEnded == loader.pc \in {"returned", "raised"} /\ "stmts" \in DOMAIN loader

\* C24, as stated: for every list of database paths with at least one
\* non-empty path, whatever positions are skipped as empty (position 0
\* included), bulk_load_sqlite_to_duckdb_multi returns having created the
\* table exactly once, before every insert into it, and the table holds the
\* rows of every non-skipped database exactly once.
C24_AsStated ==
    (BulkLoadEnded /\ NonSkipped(loader.sqlite_dbs) # << >>)
    => /\ loader.pc = "returned"
       /\ loader.stmts[1] = "CREATE TABLE"
       /\ \A i \in 2..Len(loader.stmts) : loader.stmts[i] = "INSERT INTO"
       /\ loader.table = NonSkipped(loader.sqlite_dbs)

\* The call was given ['', 'go1.db']: the first path was skipped, the
\* second inserted into a table never created, and the call raised
C24_Witness ==
    /\ BulkLoadEnded
    /\ loader.sqlite_dbs = <<GoDbStr(""), GoDbStr("go1.db")>>
    /\ loader.pc = "raised"
    /\ loader.error = "CatalogException"
    /\ loader.stmts = <<"INSERT INTO">>
    /\ loader.table = << >>

\* When the first path of the list is not empty the table is created once,
\* from it, and holds the rows of every non-skipped database, in order
C24_FirstPathGiven ==
    (BulkLoadEnded /\ loader.sqlite_dbs # << >> /\ TruthyPath(loader.sqlite_dbs[1]))
    => /\ loader.pc = "returned"
       /\ loader.stmts[1] = "CREATE TABLE"
       /\ \A i \in 2..Len(loader.stmts) : loader.stmts[i] = "INSERT INTO"
       /\ loader.table = NonSkipped(loader.sqlite_dbs)

\* The call ends as the loop of attach_each does
C24_SameAsAttachEach ==
    BulkLoadEnded
    => LET r == bulk_load_sqlite_to_duckdb_multi(loader.sqlite_dbs)
       IN  r.error = loader.error /\ r.loaded = loader.table

----------------------------------------------------------------------------
(* Order of the load pipeline *)

IsPrefix(s, t) == Len(s) <= Len(t) /\ \A i \in 1..Len(s) : s[i] = t[i]

\* s is t with some elements left out
RECURSIVE IsSubsequence(_, _)
IsSubsequence(s, t) ==
    IF Len(s) = 0 THEN TRUE
    ELSE IF Len(t) = 0 THEN FALSE
    ELSE IF s[1] = t[1] THEN IsSubsequence(Tail(s), Tail(t))
    ELSE IsSubsequence(s, Tail(t))

InPipeline == "program" \in DOMAIN loader

InLoadAll == InPipeline /\ Len(loader.program) = 6

InTest == InPipeline /\ Len(loader.program) = 4

\* The ontology database(s) of the configuration load without error
OntologyLoads(config) ==
    bulk_load_sqlite_to_duckdb_multi(sqlite_dbs(config)).error = "none"

\* Every file of a list of sources can be read
AllReadable(sources) ==
    \A i \in 1..Len(sources.items) : sources.items[i] \in ReadableSources

PipelineOrder ==
    <<"check", "bulk_load_go_db", "load_ddl", "load_gaf", "load_gpi",
      "load_derived_tables">>

\* In every state of a run: the steps called are the first ones of the
\* order, each called after the one before it returned; after a raise the
\* step that raised is the last one called; the message is logged only
\* after all six steps returned
StepsInOrder ==
    InPipeline
    => /\ IsPrefix(loader.returned, loader.started)
       /\ Len(loader.started) =
              Len(loader.returned) + (IF loader.pc \in {"in_step", "failed"} THEN 1 ELSE 0)
       /\ InLoadAll => IsPrefix(loader.started, PipelineOrder)
       /\ InTest => /\ IsSubsequence(loader.started, PipelineOrder)
                    /\ IsPrefix(loader.started,
                                <<"bulk_load_go_db", "load_ddl", "load_gaf",
                                  "load_derived_tables">>)
       /\ loader.pc = "failed" => loader.error # "none" /\ loader.log = << >>
       /\ loader.log # << >> => loader.returned = PipelineOrder

\* The test's configuration: an ontology database that loads, and GAF
\* sources that are a list of readable files
TestConfiguration ==
    /\ InTest
    /\ OntologyLoads(loader.config)
    /\ ~loader.config.sources.is_none
    /\ AllReadable(loader.config.sources)

\* C25: load_all calls check, bulk_load_go_db, load_ddl, load_gaf, load_gpi,
\* load_derived_tables in this order, each after the one before it
\* returned; once a step has raised no further step is called and 'All
\* steps completed.' is not logged; the steps as the tests call them on an
\* in-memory database (bulk_load_go_db, load_ddl, load_gaf,
\* load_derived_tables) are a subsequence of that order, and with the
\* tests' configuration none of them raises and the run goes on until the
\* last of them has returned.
C25_PipelineOrder ==
    /\ [](StepsInOrder)
    /\ [][(InPipeline /\ loader.pc = "failed") => loader' = loader]_vars
    /\ [](TestConfiguration
          => /\ loader.pc # "failed"
             /\ loader.pc # "completed" => ENABLED NextLoadAll)

\* load_all raised in load_gaf after three steps returned, and the test's
\* four steps ran to the end in another run
C25_Witness ==
    /\ InLoadAll
    /\ loader.pc = "failed"
    /\ loader.error = "IOException"
    /\ loader.started = <<"check", "bulk_load_go_db", "load_ddl", "load_gaf">>
    /\ loader.returned = <<"check", "bulk_load_go_db", "load_ddl">>
    /\ loader.log = << >>

\* The test's four steps have all returned on an in-memory database, with
\* gpi_sources left at None
C25_TestCompleted ==
    /\ TestConfiguration
    /\ loader.config.gpi_sources.is_none
    /\ loader.pc = "completed"
    /\ loader.returned =
           <<"bulk_load_go_db", "load_ddl", "load_gaf", "load_derived_tables">>
    /\ <<"gaf_association", "table">> \in loader.relations
    /\ <<"gpi", "table">> \in loader.relations

----------------------------------------------------------------------------
(* Termination of load_all *)

\* None, or a list of readable files
NoneOrReadable(sources) == sources.is_none \/ AllReadable(sources)

\* The step that raised
FailedStep == loader.started[Len(loader.started)]

\* C26, as stated: load_all reaches 'All steps completed.' for every
\* configuration whose database check passes and whose ontology and GAF
\* sources load without error, a configuration that leaves gpi_sources (or
\* sources) at None included, for which the step loads nothing: a run whose
\* sources are None or readable fails in check or bulk_load_go_db only, and
\* goes on until the message is logged otherwise.
C26_AsStated ==
    (InLoadAll /\ NoneOrReadable(loader.config.sources)
        /\ NoneOrReadable(loader.config.gpi_sources))
    => /\ loader.pc = "failed" => FailedStep \in {"check", "bulk_load_go_db"}
       /\ loader.pc \in {"ready", "in_step"} => ENABLED NextLoadAll
       /\ (loader.pc = "completed" /\ loader.config.gpi_sources.is_none)
              => loader.gpi = << >>

\* The check passed, the ontology and the GAF source were loaded, and
\* load_gpi raised on gpi_sources = None
C26_Witness ==
    /\ InLoadAll
    /\ loader.config.sources = PyList(<<"a.gaf">>)
    /\ loader.config.gpi_sources = PyNone
    /\ loader.returned = <<"check", "bulk_load_go_db", "load_ddl", "load_gaf">>
    /\ loader.gaf = <<"a.gaf">>
    /\ loader.pc = "failed"
    /\ FailedStep = "load_gpi"
    /\ loader.error = "TypeError"
    /\ loader.log = << >>

\* With sources and gpi_sources both given as lists of readable files (the
\* empty list included) a run fails in check or bulk_load_go_db only, and
\* goes on until the message is logged otherwise
C26_ListsGiven ==
    (InLoadAll /\ ~loader.config.sources.is_none /\ ~loader.config.gpi_sources.is_none
        /\ AllReadable(loader.config.sources) /\ AllReadable(loader.config.gpi_sources))
    => /\ loader.pc = "failed" => FailedStep \in {"check", "bulk_load_go_db"}
       /\ loader.pc \in {"ready", "in_step"} => ENABLED NextLoadAll

\* load_all has logged 'All steps completed.' with both lists empty
C26_Completed ==
    /\ InLoadAll
    /\ loader.config.sources = PyList(<< >>)
    /\ loader.config.gpi_sources = PyList(<< >>)
    /\ loader.pc = "completed"
    /\ loader.log = <<"All steps completed.">>
====
